---- MODULE Spec2Model ----
(***************************************************************************)
(* Model of runners-insights: the results scraper (webparser/parser.py)    *)
(* and the dashboard (visualization/app.py).                               *)
(*                                                                         *)
(* Text is a sequence of one-character strings, so that the regular        *)
(* expression, int(), str() and pandas.to_numeric are computed character   *)
(* by character.  A table (pandas DataFrame) is a record                   *)
(*   [columns |-> sequence of column names, rows |-> sequence of records]. *)
(* Cells whose Python type varies are tagged: PyStr(s), PyInt(n), None, NA. *)
(***************************************************************************)
EXTENDS Integers, Sequences, FiniteSets, TLC

VARIABLES
    pc,             \* parser: position of main() / scrape_runners_data
    shard,          \* parser: index of the (year, letter) pair being processed
    requests,       \* parser: number of requests.get calls per shard
    printed,        \* parser: the URLs of the error messages printed so far
    runners,        \* parser: text lines of the fetched page not yet looped over
    df,             \* parser: the table accumulated by scrape_runners_data / main's df
    df_cleaned,     \* parser: main's df_cleaned
    csv,            \* results.csv
    db,             \* the "runners" table of runners_db.db
    lastSaved,      \* history: the dataset handed to the most recent save_to_sqlite,
                    \* and whether that run found rows in the table that are not in it
    age_in,         \* classifier: the age passed to set_age_group
    age_out,        \* classifier: the bucket set_age_group returned
    app_df,         \* dashboard: the global df
    app_df2,        \* dashboard: the global df2
    selected,       \* dashboard: the selection of the last callback invocation, and
                    \* history: whether the invocation before it restricted the table
    filtered_data,  \* dashboard: the table rows the last callback returned
    filtered_bar_data \* dashboard: the chart rows the last callback drew

vars == <<pc, shard, requests, printed, runners, df, df_cleaned, csv, db, lastSaved,
          age_in, age_out, app_df, app_df2, selected, filtered_data,
          filtered_bar_data>>

parserVars == <<pc, shard, requests, printed, runners, df, df_cleaned, csv, db, lastSaved>>
classVars == <<age_in, age_out>>
appVars == <<app_df, app_df2, selected, filtered_data, filtered_bar_data>>

-----------------------------------------------------------------------------
(* Python values *)

PyStr(s) == [t |-> "str", v |-> s]
PyInt(n) == [t |-> "int", v |-> n]
None == [t |-> "None"]
NA == [t |-> "NA"]

Max(S) == CHOOSE x \in S : \A y \in S : y <= x
Min(S) == CHOOSE x \in S : \A y \in S : x <= y

-----------------------------------------------------------------------------
(* Characters and text *)

Digits == {"0", "1", "2", "3", "4", "5", "6", "7", "8", "9"}

DigitValue(c) ==
    CASE c = "0" -> 0 [] c = "1" -> 1 [] c = "2" -> 2 [] c = "3" -> 3
      [] c = "4" -> 4 [] c = "5" -> 5 [] c = "6" -> 6 [] c = "7" -> 7
      [] c = "8" -> 8 [] c = "9" -> 9

DigitChar(d) ==
    CASE d = 0 -> "0" [] d = 1 -> "1" [] d = 2 -> "2" [] d = 3 -> "3"
      [] d = 4 -> "4" [] d = 5 -> "5" [] d = 6 -> "6" [] d = 7 -> "7"
      [] d = 8 -> "8" [] d = 9 -> "9"

IsDigits(s) == Len(s) > 0 /\ \A i \in 1..Len(s) : s[i] \in Digits

RECURSIVE DecimalValue(_)
DecimalValue(s) ==
    IF Len(s) = 0 THEN 0
    ELSE 10 * DecimalValue(SubSeq(s, 1, Len(s) - 1)) + DigitValue(s[Len(s)])

-----------------------------------------------------------------------------
(* The pattern of scrape_runners_data, matched as re.match does: anchored  *)
(* at the start of the line, not at its end, each quantifier trying its    *)
(* candidates in priority order (greedy: longest first, lazy: shortest     *)
(* first) and keeping the first for which the rest of the pattern matches. *)
(* A position is the index of the next character to consume.               *)

IsSpace(c) == c = " "
IsNotSpace(c) == c # " "
IsDigit(c) == c \in Digits
IsNotDigit(c) == c \notin Digits
IsDot(c) == c # "\n"
IsTimeChar(c) == c \in Digits \cup {":", ".", ","}

\* whether character c is in the class written `class` in the pattern
InClass(class, c) ==
    CASE class = " " -> IsSpace(c)
      [] class = "[^ ]" -> IsNotSpace(c)
      [] class = "\\d" -> IsDigit(c)
      [] class = "[^\\d]" -> IsNotDigit(c)
      [] class = "." -> IsDot(c)
      [] class = "[\\d:.,]" -> IsTimeChar(c)
      [] class = "[\\d.,]" -> IsDigit(c) \/ c \in {".", ","}

\* End positions of the non-empty runs of a class that start at i.
RunEnds(s, i, class) ==
    {j \in (i + 1)..(Len(s) + 1) : \A k \in i..(j - 1) : InClass(class, s[k])}

Fail == [ok |-> FALSE]
Found(groups) == [ok |-> TRUE, g |-> groups]

\* Of the candidate end positions DOMAIN r, each mapped to the match of the rest
\* of the pattern from there, the first in priority order whose rest matches.
Greedy(results) ==
    CHOOSE m \in {IF \A e \in DOMAIN r : ~r[e].ok THEN Fail
                  ELSE r[Max({e \in DOMAIN r : r[e].ok})] : r \in {results}} : TRUE
Lazy(results) ==
    CHOOSE m \in {IF \A e \in DOMAIN r : ~r[e].ok THEN Fail
                  ELSE r[Min({e \in DOMAIN r : r[e].ok})] : r \in {results}} : TRUE
\* the first alternative that matches
OrElse(first, second) ==
    CHOOSE m \in {IF r.ok THEN r ELSE second : r \in {first}} : TRUE
\* a named group in front of the match of the rest
Group(name, text, rest) ==
    CHOOSE m \in {IF r.ok THEN Found((name :> text) @@ r.g) ELSE Fail
                  : r \in {rest}} : TRUE

\* \(\d+\) at position m
ParenCode(s, m) ==
    /\ m <= Len(s)
    /\ s[m] = "("
    /\ \E e \in RunEnds(s, m + 1, "\\d") : e <= Len(s) /\ s[e] = ")"

\* " +.*?[^ ] +\(\d+\)" at position i (no group is captured here)
MatchTail(s, i) ==
    \E j \in RunEnds(s, i, " ") :
        \E k \in j..Len(s) :
            /\ \A x \in j..(k - 1) : IsDot(s[x])
            /\ IsNotSpace(s[k])
            /\ \E m \in RunEnds(s, k + 1, " ") : ParenCode(s, m)

FromTail(s, i) == IF MatchTail(s, i) THEN Found(<<>>) ELSE Fail

\* total_time without the colon in its character class
FromTotalTimeNoColon(s, i) ==
    OrElse(Greedy([e \in RunEnds(s, i, "[\\d.,]") |->
                      Group("total_time", PyStr(SubSeq(s, i, e - 1)), FromTail(s, e))]),
           Group("total_time", None, FromTail(s, i)))

\* "(?P<total_time>[\d:.,]+)?" and the tail
FromTotalTime(s, i) ==
    OrElse(Greedy([e \in RunEnds(s, i, "[\\d:.,]") |->
                      Group("total_time", PyStr(SubSeq(s, i, e - 1)), FromTail(s, e))]),
           Group("total_time", None, FromTail(s, i)))

\* " +" after Location
FromSpace4(s, i) == Greedy([e \in RunEnds(s, i, " ") |-> FromTotalTime(s, e)])

\* "(?P<Location>.*?)"
FromLocation(s, i) ==
    Lazy([e \in {i} \cup RunEnds(s, i, ".") |->
             Group("Location", SubSeq(s, i, e - 1), FromSpace4(s, e))])

\* " +" after Age_year
FromSpace3(s, i) == Greedy([e \in RunEnds(s, i, " ") |-> FromLocation(s, e)])

\* "(?P<Age_year>\d{4}|\?{4})"
FromAgeYear(s, i) ==
    IF /\ i + 3 <= Len(s)
       /\ \/ \A k \in i..(i + 3) : IsDigit(s[k])
          \/ \A k \in i..(i + 3) : s[k] = "?"
    THEN Group("Age_year", SubSeq(s, i, i + 3), FromSpace3(s, i + 4))
    ELSE Fail

\* " +" after Fullname
FromSpace2(s, i) == Greedy([e \in RunEnds(s, i, " ") |-> FromAgeYear(s, e)])

\* "(?P<Fullname>[^\d]+?)"
FromFullname(s, i) ==
    Lazy([e \in RunEnds(s, i, "[^\\d]") |->
             Group("Fullname", SubSeq(s, i, e - 1), FromSpace2(s, e))])

\* " +" after Rang
FromSpace1(s, i) == Greedy([e \in RunEnds(s, i, " ") |-> FromFullname(s, e)])

\* "\.?"
FromPeriod(s, i) ==
    OrElse(IF i <= Len(s) /\ s[i] = "." THEN FromSpace1(s, i + 1) ELSE Fail,
           FromSpace1(s, i))

RangWords == {<<"D", "N", "F">>, <<"D", "S", "Q">>, <<"O", "U", "T">>}

\* "(?P<Rang>\d+|DNF|DSQ|OUT)"
FromRang(s, i) ==
    OrElse(Greedy([e \in RunEnds(s, i, "\\d") |->
                      Group("Rang", SubSeq(s, i, e - 1), FromPeriod(s, e))]),
           IF i + 2 <= Len(s) /\ SubSeq(s, i, i + 2) \in RangWords
           THEN Group("Rang", SubSeq(s, i, i + 2), FromPeriod(s, i + 3))
           ELSE Fail)

\* " +" after Category
FromSpace0(s, i) == Greedy([e \in RunEnds(s, i, " ") |-> FromRang(s, e)])

\* re.match(pattern, runner): Fail stands for the None that re.match returns
re_match(s) ==
    Greedy([e \in RunEnds(s, 1, "[^ ]") |->
               Group("Category", SubSeq(s, 1, e - 1), FromSpace0(s, e))])

-----------------------------------------------------------------------------
(* Inputs of the scraper *)

NumYears == 2       \* how many years main() scrapes in the model
NumLetters == 2     \* how many of the letters a..z are modelled

YearPool ==
    << <<"2", "0", "2", "0">>, <<"2", "0", "1", "4">>, <<"2", "0", "1", "5">>,
       <<"2", "0", "1", "6">>, <<"2", "0", "1", "7">>, <<"2", "0", "1", "8">> >>

LetterPool ==
    <<"a", "b", "c", "d", "e", "f", "g", "h", "i", "j", "k", "l", "m",
      "n", "o", "p", "q", "r", "s", "t", "u", "v", "w", "x", "y", "z">>

years == SubSeq(YearPool, 1, Min({NumYears, Len(YearPool)}))
letters == SubSeq(LetterPool, 1, Min({NumLetters, Len(LetterPool)}))

\* The text of the <font size="2"> elements of a page, one line per element.
\* M40 123 Jane Doe 1980 Zurich 3:45:10 (55)
LineScenario ==
    <<"M", "4", "0", " ", "1", "2", "3", " ", "J", "a", "n", "e", " ", "D",
      "o", "e", " ", "1", "9", "8", "0", " ", "Z", "u", "r", "i", "c", "h",
      " ", "3", ":", "4", "5", ":", "1", "0", " ", "(", "5", "5", ")">>

\* M40 123 Jane Doe 1980 Zurich 3:45:10 ---- (55)
LineScenarioCol ==
    <<"M", "4", "0", " ", "1", "2", "3", " ", "J", "a", "n", "e", " ", "D",
      "o", "e", " ", "1", "9", "8", "0", " ", "Z", "u", "r", "i", "c", "h",
      " ", "3", ":", "4", "5", ":", "1", "0", " ", "-", "-", "-", "-", " ",
      "(", "5", "5", ")">>

\* Kategorie Rang Name
LineHeader ==
    <<"K", "a", "t", "e", "g", "o", "r", "i", "e", " ", "R", "a", "n", "g",
      " ", "N", "a", "m", "e">>

\* W20 DNF. Ann Lee ???? Bern  ---- (7)
LineNoTime ==
    <<"W", "2", "0", " ", "D", "N", "F", ".", " ", "A", "n", "n", " ", "L",
      "e", "e", " ", "?", "?", "?", "?", " ", "B", "e", "r", "n", " ", " ",
      "-", "-", "-", "-", " ", "(", "7", ")">>

\* M20 5. Bob 2020  59.5 M20 (1)
LineFuture ==
    <<"M", "2", "0", " ", "5", ".", " ", "B", "o", "b", " ", "2", "0", "2",
      "0", " ", " ", "5", "9", ".", "5", " ", "M", "2", "0", " ", "(", "1",
      ")">>

Pages ==
    { <<LineHeader, LineScenario, LineScenarioCol>>,
      <<LineNoTime, LineFuture>> }

Lines == UNION {{p[i] : i \in 1..Len(p)} : p \in Pages}

\* re.match on each line of the pages
MatchOf == [l \in Lines |-> re_match(l)]

-----------------------------------------------------------------------------
(* scrape_runners_data *)

columns ==
    <<"Category", "Rang", "Fullname", "Age_year", "Location", "total_time",
      "run_link", "run_year">>

EmptyFrame == [columns |-> columns, rows |-> <<>>]

url(year, letter) ==
    <<"https://services.datasport.com/">> \o year
        \o <<"/lauf/zuerich/alfa", letter, ".htm">>

\* int(year)
int(s) == DecimalValue(s)

\* a row whose unknown birth year is left out as missing
new_row_unknown_missing(row, link, year) ==
    [Category |-> row.Category,
     Rang |-> row.Rang,
     Fullname |-> row.Fullname,
     Age_year |-> IF IsDigits(row.Age_year) THEN PyStr(row.Age_year) ELSE None,
     Location |-> row.Location,
     total_time |-> row.total_time,
     run_link |-> link,
     run_year |-> int(year)]

new_row(row, link, year) ==
    [Category |-> row.Category,
     Rang |-> row.Rang,
     Fullname |-> row.Fullname,
     Age_year |-> PyStr(row.Age_year),
     Location |-> row.Location,
     total_time |-> row.total_time,
     run_link |-> link,
     run_year |-> int(year)]

\* pd.concat([new_row, df.loc[:]]).reset_index(drop=True)
concat(row, frame) == [frame EXCEPT !.rows = <<row>> \o frame.rows]

ShardIds == (1..Len(years)) \X (1..Len(letters))
FirstShard == <<1, 1>>
NoShard == <<Len(years) + 1, 1>>
NextShard(sh) ==
    IF sh[2] < Len(letters) THEN <<sh[1], sh[2] + 1>> ELSE <<sh[1] + 1, 1>>

\* the four except clauses of the request
RequestErrors == {"HTTPError", "ConnectionError", "Timeout", "RequestException"}

\* `continue` of the letter loop, or the end of both loops and `return df`
Continue ==
    /\ shard' = NextShard(shard)
    /\ pc' = IF NextShard(shard) = NoShard THEN "clean" ELSE "request"

Requested == requests' = [requests EXCEPT ![shard] = @ + 1]

\* a failed request ends the scrape
RequestFailsAbort ==
    /\ pc = "request"
    /\ \E err \in RequestErrors :
        /\ Requested
        /\ printed' = Append(printed, url(years[shard[1]], letters[shard[2]]))
        /\ shard' = NoShard
        /\ pc' = "clean"
        /\ UNCHANGED <<runners, df>>
    /\ UNCHANGED <<df_cleaned, csv, db, lastSaved, classVars, appVars>>

RequestFails ==
    /\ pc = "request"
    /\ \E err \in RequestErrors :
        /\ Requested
        /\ printed' = Append(printed, url(years[shard[1]], letters[shard[2]]))
        /\ Continue
        /\ UNCHANGED <<runners, df>>
    /\ UNCHANGED <<df_cleaned, csv, db, lastSaved, classVars, appVars>>

RequestOk ==
    /\ pc = "request"
    /\ \E page \in Pages :
        /\ Requested
        /\ runners' = page
        /\ pc' = "lines"
    /\ UNCHANGED <<shard, printed, df, df_cleaned, csv, db, lastSaved, classVars, appVars>>

RunnerSkipped ==
    /\ pc = "lines"
    /\ runners # <<>>
    /\ ~MatchOf[Head(runners)].ok
    /\ runners' = Tail(runners)
    /\ UNCHANGED <<pc, shard, requests, printed, df, df_cleaned, csv, db,
                   lastSaved, classVars, appVars>>

AddRow(frame, runner, sh) ==
    concat(new_row(MatchOf[runner].g, url(years[sh[1]], letters[sh[2]]),
                   years[sh[1]]),
           frame)

RunnerAdded ==
    /\ pc = "lines"
    /\ runners # <<>>
    /\ MatchOf[Head(runners)].ok
    /\ df' = AddRow(df, Head(runners), shard)
    /\ runners' = Tail(runners)
    /\ UNCHANGED <<pc, shard, requests, printed, df_cleaned, csv, db, lastSaved,
                   classVars, appVars>>

PageDone ==
    /\ pc = "lines"
    /\ runners = <<>>
    /\ Continue
    /\ UNCHANGED <<requests, printed, runners, df, df_cleaned, csv, db, lastSaved,
                   classVars, appVars>>

-----------------------------------------------------------------------------
(* clean_runners_data *)

\* pd.to_numeric(text, errors="coerce") followed by astype("Int64"), on the
\* texts the pattern lets through (four digits or four question marks)
\* the placeholder coerced to zero instead of to NA
to_numeric_zero(cell) ==
    IF cell.t = "str" /\ IsDigits(cell.v) THEN PyInt(DecimalValue(cell.v))
    ELSE IF cell.t = "int" THEN cell
    ELSE PyInt(0)

to_numeric(cell) ==
    IF cell.t = "str" /\ IsDigits(cell.v) THEN PyInt(DecimalValue(cell.v))
    ELSE IF cell.t = "int" THEN cell
    ELSE NA

\* run_year - Age_year on nullable integers
age_of(run_year, born) ==
    IF born.t = "int" THEN PyInt(run_year - born.v) ELSE NA

\* df["age"].notna() & (df["age"] > 0)
keeps(age) == age.t = "int" /\ age.v > 0

DropColumn(r, c) == [k \in DOMAIN r \ {c} |-> r[k]]
AddColumn(r, c, v) == (c :> v) @@ r

WithAge(r) ==
    LET n == [r EXCEPT !.Age_year = to_numeric(@)]
    IN  AddColumn(n, "age", age_of(n.run_year, n.Age_year))

HasPositiveAge(r) == keeps(r.age)

DropAge(r) == DropColumn(r, "age")

\* the frame the caller passed, as the assignments of lines 102-107 leave it
clean_in_place(frame) ==
    [columns |-> frame.columns \o <<"age">>, rows |-> [i \in 1..Len(frame.rows) |-> WithAge(frame.rows[i])]]

\* the frame clean_runners_data returns
clean_runners_data(frame) ==
    [columns |-> frame.columns,
     rows |-> [i \in 1..Len(SelectSeq(clean_in_place(frame).rows, HasPositiveAge)) |->
                 DropAge(SelectSeq(clean_in_place(frame).rows, HasPositiveAge)[i])]]

-----------------------------------------------------------------------------
(* save_to_csv, save_to_sqlite *)

NoFile == [exists |-> FALSE]
NoTable == [exists |-> FALSE]

to_csv(frame) == [exists |-> TRUE, columns |-> frame.columns, rows |-> frame.rows]

CreateTableIfNotExists(table) ==
    IF table.exists THEN table
    ELSE [exists |-> TRUE, columns |-> <<"Id">> \o columns, rows |-> <<>>]

WithId(frame) == [i \in 1..Len(frame.rows) |-> AddColumn(frame.rows[i], "Id", i - 1)]

\* if_exists="append"
to_sql_append(frame, table) ==
    [exists |-> TRUE, columns |-> <<"Id">> \o frame.columns,
     rows |-> table.rows \o WithId(frame)]

\* df.to_sql(table_name, conn, if_exists="replace", index=True, index_label="Id")
to_sql(frame, table) ==
    [exists |-> TRUE, columns |-> <<"Id">> \o frame.columns, rows |-> WithId(frame)]

save_to_sqlite(frame, table) == to_sql(frame, CreateTableIfNotExists(table))

-----------------------------------------------------------------------------
(* main *)

NothingSaved == [frame |-> EmptyFrame, dropped |-> FALSE]

RowSet(rows) == {rows[i] : i \in 1..Len(rows)}

HoldsOtherRows(table, frame) ==
    /\ table.exists
    /\ \E r \in RowSet(table.rows) : DropColumn(r, "Id") \notin RowSet(frame.rows)

Clean ==
    /\ pc = "clean"
    /\ df' = clean_in_place(df)
    /\ df_cleaned' = clean_runners_data(df)
    /\ pc' = "save"
    /\ UNCHANGED <<shard, requests, printed, runners, csv, db, lastSaved, classVars, appVars>>

Save ==
    /\ pc = "save"
    /\ csv' = to_csv(df_cleaned)
    /\ db' = save_to_sqlite(df_cleaned, db)
    /\ lastSaved' = [frame |-> df_cleaned, dropped |-> HoldsOtherRows(db, df_cleaned)]
    /\ pc' = "done"
    /\ UNCHANGED <<shard, requests, printed, runners, df, df_cleaned, classVars, appVars>>

ParserInit ==
    /\ pc = "request"
    /\ shard = FirstShard
    /\ requests = [s \in ShardIds |-> 0]
    /\ printed = <<>>
    /\ runners = <<>>
    /\ df = EmptyFrame
    /\ df_cleaned = EmptyFrame
    /\ csv = NoFile
    /\ db = NoTable
    /\ lastSaved = NothingSaved

ClassIdle == age_in = 0 /\ age_out = ""
AppIdle ==
    /\ app_df = EmptyFrame
    /\ app_df2 = EmptyFrame
    /\ selected = <<None, None, FALSE>>
    /\ filtered_data = <<>>
    /\ filtered_bar_data = <<>>

Init == ParserInit /\ ClassIdle /\ AppIdle

Next ==
    \/ RequestFails
    \/ RequestOk
    \/ RunnerSkipped
    \/ RunnerAdded
    \/ PageDone
    \/ Clean
    \/ Save

Spec == Init /\ [][Next]_vars

\* The interpreter runs the next statement; requests.get returns or raises
\* within its timeout.
LiveSpec == Spec /\ WF_vars(Next)

-----------------------------------------------------------------------------
(* main() on an arbitrary scraped table, run any number of times against   *)
(* the same runners_db.db                                                  *)

MaxRows == 2        \* longest raw table handed to clean_runners_data

Y(a, b, c, d) == <<a, b, c, d>>

\* a row as scrape_runners_data builds it, born in `born`, scraped for `year`
RawRow(born, year, time) ==
    new_row([Category |-> <<"M", "4", "0">>, Rang |-> <<"1", "2", "3">>,
             Fullname |-> <<"J", "a", "n", "e", " ", "D", "o", "e">>,
             Age_year |-> born, Location |-> <<"Z", "u", "r", "i", "c", "h">>,
             total_time |-> time],
            url(year, "a"), year)

RawRowPool ==
    { RawRow(Y("1", "9", "8", "0"), Y("2", "0", "2", "0"), PyStr(<<"3", ":", "4", "5">>)),
      RawRow(Y("1", "9", "7", "4"), Y("2", "0", "1", "4"), None),
      RawRow(Y("0", "0", "0", "0"), Y("2", "0", "2", "0"), None),
      RawRow(Y("?", "?", "?", "?"), Y("2", "0", "1", "4"), None),
      RawRow(Y("2", "0", "1", "4"), Y("2", "0", "1", "4"), None),
      RawRow(Y("2", "0", "2", "0"), Y("2", "0", "1", "4"), None) }

RawFrames ==
    {[columns |-> columns, rows |-> rows] :
        rows \in UNION {[1..n -> RawRowPool] : n \in 0..MaxRows}}

NormInit ==
    /\ pc = "clean"
    /\ shard = NoShard
    /\ requests = [s \in ShardIds |-> 1]
    /\ printed = <<>>
    /\ runners = <<>>
    /\ df \in RawFrames
    /\ df_cleaned = EmptyFrame
    /\ csv = NoFile
    /\ db = NoTable
    /\ lastSaved = NothingSaved
    /\ ClassIdle
    /\ AppIdle

\* the script is run again: a new scrape result, the files of the last run
MainAgain ==
    /\ pc = "done"
    /\ df' \in RawFrames
    /\ df_cleaned' = EmptyFrame
    /\ pc' = "clean"
    /\ UNCHANGED <<shard, requests, printed, runners, csv, db, lastSaved, classVars, appVars>>

NormNext == Clean \/ Save \/ MainAgain

NormSpec == NormInit /\ [][NormNext]_vars

-----------------------------------------------------------------------------
(* set_age_group *)

AgeBound == 60      \* ages -AgeBound..AgeBound are classified

Ages == (0 - AgeBound)..AgeBound

AgeGroups == <<"0-20", "20-30", "30-40", "40-50", "50+">>

\* boundary ages put in the upper bucket
set_age_group_upper(age) ==
    IF age < 20 THEN "0-20"
    ELSE IF 20 <= age /\ age < 30 THEN "20-30"
    ELSE IF 30 <= age /\ age < 40 THEN "30-40"
    ELSE IF 40 <= age /\ age < 50 THEN "40-50"
    ELSE "50+"

set_age_group(age) ==
    IF age <= 20 THEN "0-20"
    ELSE IF 20 < age /\ age <= 30 THEN "20-30"
    ELSE IF 30 < age /\ age <= 40 THEN "30-40"
    ELSE IF 40 < age /\ age <= 50 THEN "40-50"
    ELSE "50+"

ClassInit ==
    /\ pc = "classify"
    /\ shard = NoShard
    /\ requests = [s \in ShardIds |-> 0]
    /\ printed = <<>>
    /\ runners = <<>>
    /\ df = EmptyFrame
    /\ df_cleaned = EmptyFrame
    /\ csv = NoFile
    /\ db = NoTable
    /\ lastSaved = NothingSaved
    /\ age_in = 0
    /\ age_out = ""
    /\ AppIdle

Classify ==
    /\ \E age \in Ages :
        /\ age_in' = age
        /\ age_out' = set_age_group(age)
    /\ pc' = "classified"
    /\ UNCHANGED <<shard, requests, printed, runners, df, df_cleaned, csv, db, lastSaved, appVars>>

ClassSpec == ClassInit /\ [][Classify]_vars

-----------------------------------------------------------------------------
(* The dashboard: module load, then the callback *)

\* pd.read_sql_query("SELECT * FROM runners", conn)
read_sql_query(table) == [columns |-> table.columns, rows |-> table.rows]

\* df["age"] = df["run_year"] - df["Age_year"]; df["age_group"] = ...
WithAgeGroup(r) ==
    AddColumn(AddColumn(r, "age", r.run_year - r.Age_year.v),
              "age_group", set_age_group(r.run_year - r.Age_year.v))

load_df(table) ==
    [columns |-> read_sql_query(table).columns \o <<"age", "age_group">>,
     rows |-> [i \in 1..Len(read_sql_query(table).rows) |->
                 WithAgeGroup(read_sql_query(table).rows[i])]]

GroupRank(g) == CHOOSE i \in 1..Len(AgeGroups) : AgeGroups[i] = g

KeyLess(a, b) ==
    \/ a[1] < b[1]
    \/ a[1] = b[1] /\ GroupRank(a[2]) < GroupRank(b[2])

RECURSIVE SortKeys(_)
SortKeys(keys) ==
    IF keys = {} THEN <<>>
    ELSE <<CHOOSE k \in keys : \A o \in keys \ {k} : KeyLess(k, o)>>
         \o SortKeys(keys \ {CHOOSE k \in keys : \A o \in keys \ {k} : KeyLess(k, o)})

CountOf(rows, key) ==
    Cardinality({i \in 1..Len(rows) :
                    rows[i].run_year = key[1] /\ rows[i].age_group = key[2]})

BarRow(rows, key) ==
    ("run_year" :> key[1]) @@ ("age_group" :> key[2])
        @@ ("Count athletes" :> CountOf(rows, key))

\* df.groupby(["run_year", "age_group"]).size().reset_index(name="Count athletes")
groupby_size(frame) ==
    [columns |-> <<"run_year", "age_group", "Count athletes">>,
     rows |-> [i \in 1..Cardinality({<<r.run_year, r.age_group>> : r \in
                                        {frame.rows[j] : j \in 1..Len(frame.rows)}})
               |-> BarRow(frame.rows,
                          SortKeys({<<r.run_year, r.age_group>> : r \in
                                      {frame.rows[j] : j \in 1..Len(frame.rows)}})[i])]]

RECURSIVE str(_)
\* str(n) for n >= 0
str(n) == IF n < 10 THEN <<DigitChar(n)>> ELSE str(n \div 10) \o <<DigitChar(n % 10)>>

PyList(S) == [t |-> "list", v |-> S]

\* `is not None` in place of the truth value
is_not_none(value) == value.t = "list"

\* the truth value of a dropdown's value: None and [] are false
truthy(value) == value.t = "list" /\ value.v # {}

\* rows[rows["run_year"].astype(str).isin(selected_years)]
FilterYears(rows, selected_years) ==
    LET isin(r) == str(r.run_year) \in selected_years.v
    IN  IF truthy(selected_years) THEN SelectSeq(rows, isin) ELSE rows

\* rows[rows["age_group"].isin(selected_age_groups)]
FilterGroups(rows, selected_age_groups) ==
    LET isin(r) == r.age_group \in selected_age_groups.v
    IN  IF truthy(selected_age_groups) THEN SelectSeq(rows, isin) ELSE rows

\* the chart rows filtered by year only
update_chart_years_only(frame, frame2, selected_years, selected_age_groups) ==
    [df |-> frame,
     df2 |-> frame2,
     bar_chart |-> FilterYears(frame2.rows, selected_years),
     data |-> FilterGroups(FilterYears(frame.rows, selected_years),
                           selected_age_groups)]

\* the filtered rows assigned to the globals instead of to copies
update_chart_in_place(frame, frame2, selected_years, selected_age_groups) ==
    [df |-> [frame EXCEPT !.rows = FilterGroups(FilterYears(frame.rows, selected_years),
                                                selected_age_groups)],
     df2 |-> [frame2 EXCEPT !.rows = FilterGroups(FilterYears(frame2.rows, selected_years),
                                                  selected_age_groups)],
     bar_chart |-> FilterGroups(FilterYears(frame2.rows, selected_years),
                                selected_age_groups),
     data |-> FilterGroups(FilterYears(frame.rows, selected_years),
                           selected_age_groups)]

\* The callback: what it leaves in the globals df and df2, the rows of the
\* figure and the records of the table.
update_chart_and_table(frame, frame2, selected_years, selected_age_groups) ==
    [df |-> frame,
     df2 |-> frame2,
     bar_chart |-> FilterGroups(FilterYears(frame2.rows, selected_years),
                                selected_age_groups),
     data |-> FilterGroups(FilterYears(frame.rows, selected_years),
                           selected_age_groups)]

SavedTables ==
    {save_to_sqlite(clean_runners_data(f), NoTable) : f \in RawFrames}

YearChoices == {Y("2", "0", "2", "0"), Y("2", "0", "1", "4"), Y("1", "9", "9", "9")}
YearSelections == {None} \cup {PyList(S) : S \in SUBSET YearChoices}
GroupChoices == {"0-20", "30-40", "50+"}
GroupSelections == {None} \cup {PyList(S) : S \in SUBSET GroupChoices}

AppInit ==
    /\ pc = "loaded"
    /\ shard = NoShard
    /\ requests = [s \in ShardIds |-> 1]
    /\ printed = <<>>
    /\ runners = <<>>
    /\ df = EmptyFrame
    /\ df_cleaned = EmptyFrame
    /\ csv = NoFile
    /\ db \in SavedTables
    /\ lastSaved = NothingSaved
    /\ ClassIdle
    /\ app_df = load_df(db)
    /\ app_df2 = groupby_size(load_df(db))
    /\ selected = <<None, None, FALSE>>
    /\ filtered_data = load_df(db).rows
    /\ filtered_bar_data = <<>>

Callback ==
    /\ \E selected_years \in YearSelections, selected_age_groups \in GroupSelections :
        \E out \in {update_chart_and_table(app_df, app_df2, selected_years,
                                           selected_age_groups)} :
            /\ selected' = <<selected_years, selected_age_groups,
                             pc = "served" /\ Len(filtered_data) < Len(app_df.rows)>>
            /\ app_df' = out.df
            /\ app_df2' = out.df2
            /\ filtered_bar_data' = out.bar_chart
            /\ filtered_data' = out.data
    /\ pc' = "served"
    /\ UNCHANGED <<shard, requests, printed, runners, df, df_cleaned, csv, db,
                   lastSaved, classVars>>

AppSpec == AppInit /\ [][Callback]_vars

-----------------------------------------------------------------------------
(* Properties *)

Y2020 == Y("2", "0", "2", "0")
JaneDoe == <<"J", "a", "n", "e", " ", "D", "o", "e">>

\* the fields of the record the scenario line is said to give
ScenarioFields(r) ==
    /\ r.Category = <<"M", "4", "0">>
    /\ r.Rang = <<"1", "2", "3">>
    /\ r.Fullname = JaneDoe
    /\ r.Age_year = PyStr(Y("1", "9", "8", "0"))
    /\ r.Location = <<"Z", "u", "r", "i", "c", "h">>
    /\ r.total_time = PyStr(<<"3", ":", "4", "5", ":", "1", "0">>)
    /\ r.run_year = 2020

\* the loop is about to process `line` of a page of the year 2020
AtLine(line) ==
    /\ pc = "lines"
    /\ runners # <<>>
    /\ Head(runners) = line
    /\ years[shard[1]] = Y2020

\* C1: clean_runners_data returns exactly the input rows whose birth year is
\* numeric and whose run_year - birth year is > 0, in input order; a "????"
\* row is dropped, not aged against year 0; the surviving rows keep their
\* values (the birth year as the number its text denotes).
C1_Survives(r) ==
    /\ IsDigits(r.Age_year.v)
    /\ r.run_year - DecimalValue(r.Age_year.v) > 0
C1_Expected(raw) ==
    [i \in 1..Len(SelectSeq(raw.rows, C1_Survives)) |->
        [SelectSeq(raw.rows, C1_Survives)[i]
            EXCEPT !.Age_year = PyInt(DecimalValue(@.v))]]
C1_CleanKeepsExactlyPositiveAges ==
    [][pc = "clean" =>
        /\ df_cleaned'.columns = df.columns
        /\ df_cleaned'.rows = C1_Expected(df)]_vars
C1_Witness ==
    /\ pc = "save"
    /\ Len(df.rows) = 2
    /\ Len(df_cleaned.rows) = 1
    /\ \E i \in 1..2 : df.rows[i].Age_year = NA

\* C2 as stated: processing "M40 123 Jane Doe 1980 Zurich 3:45:10 (55)" for
\* the year 2020 adds the record M40 / 123 / Jane Doe / 1980 / Zurich / 3:45:10.
C2_ScenarioLineGivesRecord ==
    [][AtLine(LineScenario) =>
        /\ Len(df'.rows) = Len(df.rows) + 1
        /\ ScenarioFields(df'.rows[1])]_vars

\* C2 as amended: that line adds nothing; with one more non-blank column
\* between the time and the parenthesised code the line adds the record, and
\* once main has saved, the dashboard gives every such row age 40 and age
\* group "30-40".
C2_IsScenarioRow(r) ==
    r.Fullname = JaneDoe /\ r.run_year = 2020 /\ r.Age_year = PyInt(1980)
C2_ScenarioWithColumnGivesRecord ==
    /\ [][AtLine(LineScenario) => df' = df]_vars
    /\ [][AtLine(LineScenarioCol) =>
            /\ Len(df'.rows) = Len(df.rows) + 1
            /\ ScenarioFields(df'.rows[1])
            /\ Tail(df'.rows) = df.rows]_vars
    /\ [](pc = "done" =>
            \A r \in RowSet(df.rows) :
                C2_IsScenarioRow(r) =>
                    \E a \in RowSet(load_df(db).rows) :
                        /\ DropColumn(DropColumn(DropColumn(a, "Id"), "age_group"), "age")
                             = DropColumn(r, "age")
                        /\ a.age = 40
                        /\ a.age_group = "30-40")
C2_Witness ==
    /\ pc = "done"
    /\ \E a \in RowSet(load_df(db).rows) :
        a.Fullname = JaneDoe /\ a.run_year = 2020 /\ a.age = 40 /\ a.age_group = "30-40"

\* C3: set_age_group returns one of the five buckets for every integer age,
\* negative and zero included, with the boundary ages 20, 30, 40, 50 in the
\* lower bucket.
C3_Bucket(age, group) ==
    /\ group \in {"0-20", "20-30", "30-40", "40-50", "50+"}
    /\ (age <= 20) <=> (group = "0-20")
    /\ (20 < age /\ age <= 30) <=> (group = "20-30")
    /\ (30 < age /\ age <= 40) <=> (group = "30-40")
    /\ (40 < age /\ age <= 50) <=> (group = "40-50")
    /\ (age > 50) <=> (group = "50+")
C3_ClassifierTotalLowerClosed == pc = "classified" => C3_Bucket(age_in, age_out)
C3_Witness == pc = "classified" /\ age_in < 0 /\ age_out = "0-20"

RECURSIVE SumCounts(_)
SumCounts(rows) ==
    IF rows = <<>> THEN 0 ELSE Head(rows)["Count athletes"] + SumCounts(Tail(rows))

\* C4: for every selection the number of filtered table rows equals the sum of
\* the counts of the filtered chart rows; the counts of the whole aggregate sum
\* to the number of rows of df, every row counted in exactly one group.
C4_FilterConsistent ==
    /\ pc = "served" => Len(filtered_data) = SumCounts(filtered_bar_data)
    /\ SumCounts(app_df2.rows) = Len(app_df.rows)
    /\ \A i \in 1..Len(app_df.rows) :
        Cardinality({j \in 1..Len(app_df2.rows) :
            /\ app_df2.rows[j].run_year = app_df.rows[i].run_year
            /\ app_df2.rows[j].age_group = app_df.rows[i].age_group}) = 1
C4_Witness ==
    /\ pc = "served"
    /\ truthy(selected[1])
    /\ truthy(selected[2])
    /\ Len(filtered_data) = 1
    /\ Len(app_df.rows) = 2

C5_InGroups(r) == r.age_group \in selected[2].v
\* C5: an empty or absent selection restricts nothing: with no years and some
\* age groups selected the table is the rows of every year in those groups;
\* with neither selected the outputs are the whole table and whole aggregate.
C5_EmptySelectionPassesThrough ==
    pc = "served" =>
        /\ (selected[1] \in {None, PyList({})} /\ selected[2] \notin {None, PyList({})})
            => /\ filtered_data = SelectSeq(app_df.rows, C5_InGroups)
               /\ filtered_bar_data = SelectSeq(app_df2.rows, C5_InGroups)
        /\ (selected[1] \in {None, PyList({})} /\ selected[2] \in {None, PyList({})})
            => /\ filtered_data = app_df.rows
               /\ filtered_bar_data = app_df2.rows
C5_Witness ==
    /\ pc = "served"
    /\ selected[1] = PyList({})
    /\ selected[2] = PyList({"30-40"})
    /\ Len(filtered_data) = 2
    /\ filtered_data[1].run_year # filtered_data[2].run_year

\* what a complete row of the accumulated table is: the eight columns, none
\* but total_time missing
C6_IsText(x) == DOMAIN x = 1..Len(x)
C6_Complete(r) ==
    /\ DOMAIN r = {columns[i] : i \in 1..Len(columns)}
    /\ C6_IsText(r.Category) /\ r.Category # <<>>
    /\ C6_IsText(r.Rang) /\ r.Rang # <<>>
    /\ C6_IsText(r.Fullname) /\ r.Fullname # <<>>
    /\ r.Age_year.t = "str" /\ Len(r.Age_year.v) = 4
    /\ C6_IsText(r.Location)
    /\ r.total_time = None \/ (r.total_time.t = "str" /\ r.total_time.v # <<>>)
    /\ r.run_link # <<>>
    /\ r.run_year \in Nat
\* C6: every line of a page either matches and adds one complete row, or does
\* not match and leaves the table as it was; either way the loop goes on to
\* the next line, and the table never holds a partial row.
C6_LineAddsCompleteRowOrNothing ==
    /\ [][(pc = "lines" /\ runners # <<>>) =>
            /\ runners' = Tail(runners)
            /\ pc' = "lines"
            /\ IF re_match(Head(runners)).ok
               THEN /\ Len(df'.rows) = Len(df.rows) + 1
                    /\ C6_Complete(df'.rows[1])
                    /\ Tail(df'.rows) = df.rows
               ELSE df' = df]_vars
    /\ [](pc \in {"request", "lines", "clean"} =>
            \A r \in RowSet(df.rows) : C6_Complete(r))
C6_Witness ==
    /\ pc = "lines"
    /\ runners = <<LineScenarioCol>>
    /\ \E r \in RowSet(df.rows) : r.total_time = None

Before(a, b) == a[1] < b[1] \/ (a[1] = b[1] /\ a[2] < b[2])
IsSuffix(old, new) ==
    /\ Len(old) <= Len(new)
    /\ SubSeq(new, Len(new) - Len(old) + 1, Len(new)) = old
\* the statements the scrape has still to run, at most: per shard not yet
\* done the request, one step per line of the longest page and the end of
\* the page
C7_LongestPage == Max({Len(p) : p \in Pages})
C7_ShardsLeft == Cardinality({s \in ShardIds : ~Before(s, shard)})
C7_StepsLeft ==
    IF pc = "request" THEN C7_ShardsLeft * (C7_LongestPage + 2)
    ELSE IF pc = "lines"
         THEN (C7_ShardsLeft - 1) * (C7_LongestPage + 2) + Len(runners) + 1
    ELSE 0
\* C7: the shards are requested once each, in order; a failed request is not
\* repeated, changes no row of the table, and the loop moves to the next
\* shard; the scrape returns: until it has, a next statement can always run
\* and every statement run leaves fewer statements to run.
C7_EveryShardOnceFailuresSkipped ==
    /\ [](\A s \in ShardIds :
            requests[s] = IF Before(s, shard) \/ (s = shard /\ pc = "lines")
                          THEN 1 ELSE 0)
    /\ [][printed' # printed =>
            /\ df' = df
            /\ shard' = NextShard(shard)
            /\ requests'[shard] = 1]_vars
    /\ [][(pc = "request" \/ pc = "lines") => IsSuffix(df.rows, (df').rows)]_vars
    /\ []((pc = "request" \/ pc = "lines") => ENABLED Next)
    /\ [][(pc = "request" \/ pc = "lines") =>
            (C7_StepsLeft' < C7_StepsLeft /\ C7_StepsLeft' >= 0)]_vars
\* the same end stated with fairness: under LiveSpec the scrape returns
C7_Returns == <>(pc = "clean")
C7_Witness ==
    /\ pc = "clean"
    /\ printed = <<url(years[1], letters[2])>>
    /\ \E r \in RowSet(df.rows) : r.run_link = url(years[1], letters[1])
    /\ \E r \in RowSet(df.rows) : r.run_link = url(years[2], letters[1])

\* C8: after any number of runs the table holds exactly the rows of the
\* dataset of the last run, numbered from 0.
C8_TableHoldsLastDataset ==
    IF db.exists
    THEN /\ Len(db.rows) = Len(lastSaved.frame.rows)
         /\ \A i \in 1..Len(db.rows) :
                db.rows[i] = AddColumn(lastSaved.frame.rows[i], "Id", i - 1)
    ELSE lastSaved = NothingSaved
C8_Witness ==
    /\ pc = "done"
    /\ lastSaved.dropped
    /\ db.rows # <<>>

\* C9: the call of clean_runners_data leaves the table the caller passed as
\* it was: the same columns, the same cells.
C9_CleanLeavesRawTable == [][pc = "clean" => df' = df]_vars

\* C10: the callback leaves df and df2 as the module load made them, so its
\* outputs are those of its own selection on the loaded data.
C10_CallbackLeavesGlobals ==
    /\ app_df = load_df(db)
    /\ app_df2 = groupby_size(load_df(db))
    /\ pc = "served" =>
        /\ filtered_data =
             FilterGroups(FilterYears(load_df(db).rows, selected[1]), selected[2])
        /\ filtered_bar_data =
             FilterGroups(FilterYears(groupby_size(load_df(db)).rows, selected[1]),
                          selected[2])
C10_Witness ==
    /\ pc = "served"
    /\ selected[3]
    /\ selected[1] = PyList({})
    /\ selected[2] = None
    /\ filtered_data = load_df(db).rows
    /\ Len(filtered_data) = 2

====
